---- MODULE Spec2Model ----
(***************************************************************************)
(* bredis: an object-record mapping layer over a Redis hash store.         *)
(*                                                                         *)
(* The store is modelled by the identity-counter key, the record hashes    *)
(* and the lock keys of one record type.  Every client is a process with   *)
(* its own connection mode (bredis/__init__.py keeps the mode in module    *)
(* globals) and one current Model instance.  Every store call is one       *)
(* atomic step; the code run between two store calls belongs to the step   *)
(* of the call that follows it.  Time is counted in ticks of 0.5 s, the    *)
(* sleep of Mutex.lock; the lease of 1.0 s is two ticks.                   *)
(*                                                                         *)
(* Python's None and Redis' nil are the empty tuple <<>>, a present value  *)
(* v is <<v>>.  The descriptors' __get__ bodies are modelled as invoked    *)
(* with the instance (attributes.py declares them without the owner        *)
(* argument).                                                              *)
(*                                                                         *)
(* Spec is the synchronous life of the records on an empty store, with one *)
(* process that may be in async mode and call save_async.  SpecAsync is    *)
(* one caller on the IOLoop with the async manager, on a store that holds  *)
(* records already.  The callers start a bounded number of operations.     *)
(* SpecLock is a bounded number of saves of one stored record, some of     *)
(* which raise in _write, next to a holder of the lock that may have       *)
(* stopped for good; SpecLockFair adds that time goes on and that every    *)
(* process keeps running.  SpecValid is the saves of instances of a type   *)
(* with two required attributes, a required reference field and a          *)
(* validate() hook.  SpecDecl is the declaration of record types with      *)
(* reference fields, ModelBase.__init__, in any order; SpecInherit is the  *)
(* declaration of types with parent types.  SpecDates is the life of the   *)
(* records of a type with auto_now and auto_now_add date fields, SpecNotes *)
(* that of a type that requires no field.  SpecWriters is two processes    *)
(* that change and save the same stored record, SpecResave the save_async  *)
(* of instances of a stored record.  SpecSetup is Spec's synchronous life  *)
(* with calls of setup_connection between the operations.                  *)
(***************************************************************************)
EXTENDS Integers, Sequences, FiniteSets, TLC

\* ---------------------------------------------------------------- bounds
NClients == 2
MaxId == 2
MaxTime == 3
MaxHits == 1
MaxQueue == 1
MaxOps == 5
MaxCalls == 2
MaxSaves == 2

\* ----------------------------------------------------- program constants
\* Mutex.lock_timeout: time.time() + 1.0, in ticks
LockLease == 2
\* Mutex.lock: time.sleep(0.5), in ticks
SleepTicks == 1
TicksPerSecond == LockLease
\* a day, in seconds of the model's clock
SecondsPerDay == 2

Clients == 1..NClients
Times == 0..MaxTime

None == <<>>
Some(v) == <<v>>

\* ------------------------------------------------------------ key scheme
Prefix == "Page"
IdKey == Prefix \o ":id"
Key(id) == Prefix \o ":" \o id
LockKey(id) == Key(id) \o ":_lock"

\* Model.id setter: self._id = str(val), for the integers INCR returns
Str(n) == ToString(n)

IdStrs == {Str(i) : i \in 1..MaxId}
HashKeys == {Key(s) : s \in IdStrs}
LockKeys == {LockKey(s) : s \in IdStrs}

\* ---------------------------------------------------------- record types
\* One declared type: its _attributes (counters included, Counter is an
\* Attribute), the required ones, its _counters and the auto_now fields.
AllFields == {"name", "email", "owner_id", "created", "day", "updated", "hits"}
FieldOrder == <<"name", "email", "owner_id", "created", "day", "updated", "hits">>
\* the fields declared as DateTimeField and as DateField
DateTimeFields == {"created", "updated"}
DateFields == {"day"}
\* the reference fields (_references); ReferenceField.attname is name + '_id'
RefOrder == <<"owner">>
attname(r) == r \o "_id"
TextValues == {"a"}

\* class Person(Model): name = Attribute(required=True)
Person ==
    [attrs |-> {"name"}, required |-> {"name"}, counters |-> {}, auto_now |-> {},
     auto_now_add |-> {}, refs |-> {}, hook |-> FALSE]
\* class Page(Model): name = Attribute(required=True)
\*                    updated = DateTimeField(auto_now=True); hits = Counter()
Page ==
    [attrs |-> {"name", "updated", "hits"}, required |-> {"name"},
     counters |-> {"hits"}, auto_now |-> {"updated"}, auto_now_add |-> {},
     refs |-> {}, hook |-> FALSE]
DeclaredTypes == {Person, Page}
\* class Post(Model): name = Attribute(required=True)
\*                    email = Attribute(required=True)
\*                    owner = ReferenceField(Person, required=True)
\*                    def validate(self):
\*                        if self.name == 'Nemo':
\*                            self._errors.append(('name', 'cannot be Nemo'))
\* _initialize_references adds the Attribute owner_id to its attributes.
Post ==
    [attrs |-> {"name", "email", "owner_id"},
     required |-> {"name", "email", "owner"},
     counters |-> {}, auto_now |-> {}, auto_now_add |-> {}, refs |-> {"owner"},
     hook |-> TRUE]
\* class Article(Model): name = Attribute(required=True)
\*                       created = DateTimeField(auto_now_add=True)
\*                       day = DateField(auto_now_add=True)
\*                       updated = DateTimeField(auto_now=True)
Article ==
    [attrs |-> {"name", "created", "day", "updated"}, required |-> {"name"},
     counters |-> {}, auto_now |-> {"updated"}, auto_now_add |-> {"created", "day"},
     refs |-> {}, hook |-> FALSE]

\* class Contact(Model): name = Attribute(required=True); email = Attribute()
Contact ==
    [attrs |-> {"name", "email"}, required |-> {"name"}, counters |-> {},
     auto_now |-> {}, auto_now_add |-> {}, refs |-> {}, hook |-> FALSE]

\* class Note(Model): name = Attribute()
Note ==
    [attrs |-> {"name"}, required |-> {}, counters |-> {}, auto_now |-> {},
     auto_now_add |-> {}, refs |-> {}, hook |-> FALSE]

NoHash == [f \in AllFields |-> None]
NoCache == [f \in AllFields |-> None]
NewInst == [id |-> None, cache |-> NoCache, errors |-> <<>>]
\* no type declared yet: _deferred_refs = []
NoMeta == [declared |-> <<>>, refs |-> {}, deferred |-> <<>>, accessors |-> {},
           classes |-> <<>>]
NoLoc == [new |-> FALSE, i |-> 0, wake |-> 0, mine |-> 0, h |-> NoHash]

VARIABLES
    now,            \* time.time(), in ticks
    schema,         \* the declared record type
    async_client,   \* per process: async_client is not None
    connection,     \* per process: "sync" (redis.Redis) or "async" (tornadoredis)
    idkey,          \* the integer at <prefix>:id (0: the key does not exist)
    hashes,         \* the hash at <prefix>:<id>, all fields nil: no such key
    locks,          \* the string at <prefix>:<id>:_lock
    inst,           \* per client: the Model instance (_id, field cache, _errors)
    pc,             \* per client: position in the running operation
    loc,            \* per client: locals of the running operation
    ret,            \* per client: the outcome of the last operation
    queue,          \* per client: requests sent on the async connection, FIFO
    cbs,            \* per client: values the caller's callback was invoked with
    ops,            \* the number of operations the callers have started
    budget,         \* the number of operations the callers may start
    crashed,        \* a process stopped for good while it held a record's lock
    meta,           \* the declared types, their reference fields, _deferred_refs
    idlog,          \* history: the values INCR returned, in order
    prev,           \* history: per client, the hash its last save wrote
    gone            \* history: the keys deleted by delete() and not written since

vars == <<now, schema, async_client, connection, idkey, hashes, locks, inst,
          pc, loc, ret, queue, cbs, ops, budget, crashed, meta, idlog, prev, gone>>
store == <<idkey, hashes, locks>>
modes == <<schema, async_client, connection, budget, crashed, meta>>

\* ------------------------------------------------------- bredis/__init__
is_async(c) == async_client[c]

\* ------------------------------------------------------------ attributes
Fields(s) == SelectSeq(FieldOrder, LAMBDA f : f \in s.attrs)
\* Model.fields: attributes.values() + references.values()
ValidatedFields(s) == Fields(s) \o SelectSeq(RefOrder, LAMBDA r : r \in s.refs)

\* a variant of is_new that takes every instance for a new one
is_new_always(in) == TRUE

\* a variant of exists that asks whether the identity was ever allocated
exists_allocated(id) == \E i \in 1..idkey : Str(i) = id

\* Model.is_new: not hasattr(self, '_id')
is_new(in) == in.id = None

\* Model.exists: bool(get_client().exists(key))
exists(id) == Key(id) \in HashKeys /\ hashes[Key(id)] # NoHash

\* Attribute.typecast_for_read / DateTimeField.typecast_for_read (seconds to
\* a datetime) / DateField.typecast_for_read (seconds to a date, the day
\* the second lies in; a date counts as its midnight) /
\* IntegerField.typecast_for_read
typecast_for_read(f, raw) ==
    IF f \in DateTimeFields THEN raw * TicksPerSecond
    ELSE IF f \in DateFields
    THEN (raw \div SecondsPerDay) * SecondsPerDay * TicksPerSecond
    ELSE raw

\* Attribute.typecast_for_storage / DateTimeField.typecast_for_storage and
\* DateField.typecast_for_storage (int(time.mktime(value.timetuple())):
\* whole seconds, of a datetime as of a date) /
\* IntegerField.typecast_for_storage
typecast_for_storage(f, v) ==
    IF f \in DateTimeFields \cup DateFields THEN v \div TicksPerSecond ELSE v

\* a variant of Counter.__get__ that never asks the store
CounterGetDefault(c, in, f) == 0

\* Counter.__get__: the stored value, 0 when nil, new or in async mode
CounterGet(c, in, f) ==
    IF ~(is_new(in) \/ is_async(c))
    THEN LET value == hashes[Key(in.id[1])][f]
         IN  IF value = None THEN 0 ELSE value[1]
    ELSE 0

\* the default a field is declared with: None, 0 for a Counter
Default(f) == IF f \in schema.counters THEN Some(0) ELSE None

\* a variant of Attribute.__get__ that asks the store whenever the instance
\* has an identity, whatever the connection
AttrGetAnyMode(c, in, f) ==
    IF in.cache[f] # <<>>
    THEN [val |-> in.cache[f][1], cache |-> in.cache, read |-> FALSE]
    ELSE LET value ==
                 IF is_new(in)
                 THEN Default(f)
                 ELSE LET raw == hashes[Key(in.id[1])][f]
                      IN  IF raw = None THEN None
                          ELSE Some(typecast_for_read(f, raw[1]))
         IN  [val |-> value, cache |-> [in.cache EXCEPT ![f] = Some(value)],
              read |-> ~is_new(in)]

\* Attribute.__get__: the cached value, else the default (new or async) or
\* the stored value, which is then cached.  [val, cache, read] is the
\* value, the instance's cache afterwards and whether hget was called.
AttrGet(c, in, f) ==
    IF in.cache[f] # <<>>
    THEN [val |-> in.cache[f][1], cache |-> in.cache, read |-> FALSE]
    ELSE LET value ==
                 IF is_new(in) \/ is_async(c)
                 THEN Default(f)
                 ELSE LET raw == hashes[Key(in.id[1])][f]
                      IN  IF raw = None THEN None
                          ELSE Some(typecast_for_read(f, raw[1]))
         IN  [val |-> value, cache |-> [in.cache EXCEPT ![f] = Some(value)],
              read |-> ~(is_new(in) \/ is_async(c))]

\* getattr(instance, name) through the field's descriptor
GetAttr(c, in, f) ==
    IF f \in schema.counters
    THEN [val |-> Some(CounterGet(c, in, f)), cache |-> in.cache,
          read |-> ~(is_new(in) \/ is_async(c))]
    ELSE AttrGet(c, in, f)

\* the value a field's validate reads: getattr(instance, self.name), for a
\* reference field getattr(instance, self.attname, None)
FieldValue(c, in, f) ==
    IF f \in schema.refs THEN AttrGet(c, in, attname(f)) ELSE GetAttr(c, in, f)

\* unicode(value).strip() and str(value).isdigit() on the strings in use
Blank == {"", " "}
strip(v) == IF v \in Blank THEN "" ELSE v
isdigit(v) == v \in {ToString(i) : i \in 0..MaxId}

\* Attribute.validate and ReferenceField.validate, given the value read.
\* The values of a text field are strings, so 'bad type' does not arise.
FieldErrors(f, value) ==
    IF f \in schema.refs
    THEN (IF value # None /\ value[1] # "" /\ ~isdigit(value[1])
          THEN << <<f, "bad type for reference">> >> ELSE <<>>)
         \o (IF f \in schema.required /\ (value = None \/ value[1] = "")
             THEN << <<f, "required">> >> ELSE <<>>)
    ELSE IF f \in schema.required /\ (value = None \/ strip(value[1]) = "")
    THEN << <<f, "required">> >>
    ELSE <<>>

\* Model.validate: the hook of the type, run after every field
HookErrors(c, in) ==
    IF schema.hook /\ GetAttr(c, in, "name").val = Some("Nemo")
    THEN << <<"name", "cannot be Nemo">> >>
    ELSE <<>>

\* a variant of is_valid that stops at the first field with an error
RECURSIVE ValidateFailFast(_, _, _, _)
ValidateFailFast(c, in, i, errs) ==
    IF i > Len(ValidatedFields(schema)) \/ errs # <<>>
    THEN [errors |-> errs, cache |-> in.cache]
    ELSE LET f == ValidatedFields(schema)[i]
             g == FieldValue(c, in, f)
         IN  ValidateFailFast(c, [in EXCEPT !.cache = g.cache], i + 1,
                              errs \o FieldErrors(f, g.val))

\* Model.is_valid in one piece, for the fields from index i on: [errors, cache]
RECURSIVE ValidateFrom(_, _, _, _)
ValidateFrom(c, in, i, errs) ==
    IF i > Len(ValidatedFields(schema))
    THEN [errors |-> errs \o HookErrors(c, in), cache |-> in.cache]
    ELSE LET f == ValidatedFields(schema)[i]
             g == FieldValue(c, in, f)
         IN  ValidateFrom(c, [in EXCEPT !.cache = g.cache], i + 1,
                          errs \o FieldErrors(f, g.val))

\* a variant of _get_data_for_storage that sets the auto_now_add fields on
\* every save
RECURSIVE DataForStorageAlways(_, _, _, _, _)
DataForStorageAlways(c, in, new, i, h) ==
    IF i > Len(Fields(schema))
    THEN [h |-> h, cache |-> in.cache]
    ELSE LET f == Fields(schema)[i]
             in1 == IF f \in schema.auto_now \cup schema.auto_now_add
                    THEN [in EXCEPT !.cache[f] = Some(Some(now))]
                    ELSE in
             g == GetAttr(c, in1, f)
             h1 == IF g.val # None
                   THEN [h EXCEPT ![f] = Some(typecast_for_storage(f, g.val[1]))]
                   ELSE h
         IN  DataForStorageAlways(c, [in1 EXCEPT !.cache = g.cache], new, i + 1, h1)

\* Model._write up to pipeline.execute, Model._get_data_for_storage: the
\* auto_now fields, and on the save of a new instance the auto_now_add
\* fields, are set to datetime.now(), every attribute is read and the ones
\* that are not None are cast for storage.  [h, cache]
RECURSIVE DataForStorage(_, _, _, _, _)
DataForStorage(c, in, new, i, h) ==
    IF i > Len(Fields(schema))
    THEN [h |-> h, cache |-> in.cache]
    ELSE LET f == Fields(schema)[i]
             in1 == IF f \in schema.auto_now \/ (f \in schema.auto_now_add /\ new)
                    THEN [in EXCEPT !.cache[f] = Some(Some(now))]
                    ELSE in
             g == GetAttr(c, in1, f)
             h1 == IF g.val # None
                   THEN [h EXCEPT ![f] = Some(typecast_for_storage(f, g.val[1]))]
                   ELSE h
         IN  DataForStorage(c, [in1 EXCEPT !.cache = g.cache], new, i + 1, h1)

\* ----------------------------------------------------------------- Mutex
\* Mutex.lock_timeout: "%f" % (time.time() + 1.0)
lock_timeout == now + LockLease
\* Mutex.lock_has_expired: float(lock) < time.time()
lock_has_expired(lock) == lock < now

\* ------------------------------------------------------------- history
NoPrev == [n |-> 0, h |-> NoHash, diff |-> {}, realloc |-> FALSE]
AfterSave(p, h, new) ==
    IF p.n = 0
    THEN [n |-> 1, h |-> h, diff |-> {}, realloc |-> FALSE]
    ELSE [n |-> 2, h |-> h, diff |-> {f \in AllFields : h[f] # p.h[f]},
          realloc |-> new]

\* A write to the record at key k by anyone but client c0 ends the run of
\* consecutive saves of every other instance of that record.
Touched(k, c0) ==
    [c \in Clients |->
        IF c # c0 /\ inst[c].id # None /\ Key(inst[c].id[1]) = k
        THEN NoPrev
        ELSE prev[c]]
Running(c, p) == pc' = [pc EXCEPT ![c] = p] /\ ret' = [ret EXCEPT ![c] = "running"]
Return(c, r) == pc' = [pc EXCEPT ![c] = "idle"] /\ ret' = [ret EXCEPT ![c] = r]
Done(c) == loc' = [loc EXCEPT ![c] = NoLoc]
\* the operations the callers start are counted, up to the budget
StartOp(c) == ops < budget /\ ops' = ops + 1
Sync(c) == pc[c] = "idle" /\ connection[c] = "sync"

\* ------------------------------------------------- the caller's own code
\* Model(**kwargs): update_attributes sets the fields given.  A caller keeps
\* its instance while the reply to the INCR sent for it is outstanding.
NewInstance(c, kw) ==
    /\ pc[c] = "idle"
    /\ \A i \in 1..Len(queue[c]) : queue[c][i].cmd # "INCR"
    /\ inst' = [inst EXCEPT ![c] = [NewInst EXCEPT !.cache["name"] = kw]]
    /\ prev' = [prev EXCEPT ![c] = NoPrev]
    /\ Return(c, "None")
    /\ StartOp(c)
    /\ UNCHANGED <<now, modes, store, loc, queue, cbs, idlog>>
    /\ UNCHANGED gone

\* instance.name = v: Attribute.__set__
SetName(c, v) ==
    /\ pc[c] = "idle"
    /\ inst[c].cache["name"] # Some(v)
    /\ inst' = [inst EXCEPT ![c].cache["name"] = Some(v)]
    /\ prev' = [prev EXCEPT ![c] = NoPrev]
    /\ StartOp(c)
    /\ UNCHANGED <<now, modes, store, pc, loc, ret, queue, cbs, idlog>>
    /\ UNCHANGED gone

\* instance.email = v
SetEmail(c, v) ==
    /\ pc[c] = "idle"
    /\ inst[c].cache["email"] # Some(v)
    /\ inst' = [inst EXCEPT ![c].cache["email"] = Some(v)]
    /\ prev' = [prev EXCEPT ![c] = NoPrev]
    /\ StartOp(c)
    /\ UNCHANGED <<now, modes, store, pc, loc, ret, queue, cbs, idlog>>
    /\ UNCHANGED gone

\* ------------------------------------------------------------ Model.save
\* a variant of save that allocates the identity before it validates
SaveBeginAllocating(c) ==
    /\ Sync(c)
    /\ inst' = [inst EXCEPT ![c].errors = <<>>]
    /\ loc' = [loc EXCEPT ![c] = [NoLoc EXCEPT !.i = 1]]
    /\ idkey' = IF is_new(inst[c]) /\ idkey < MaxId THEN idkey + 1 ELSE idkey
    /\ Running(c, "valid")
    /\ StartOp(c)
    /\ UNCHANGED <<now, modes, hashes, locks, queue, cbs, idlog, prev, gone>>

SaveBegin(c) ==
    /\ Sync(c)
    /\ inst' = [inst EXCEPT ![c].errors = <<>>]
    /\ loc' = [loc EXCEPT ![c] = [NoLoc EXCEPT !.i = 1]]
    /\ Running(c, "valid")
    /\ StartOp(c)
    /\ UNCHANGED <<now, modes, store, queue, cbs, idlog, prev>>
    /\ UNCHANGED gone

\* Model.is_valid, one field (one read of the store) per step; on the last
\* field save returns the errors or goes on
Validate(c) ==
    /\ pc[c] = "valid"
    /\ LET i == loc[c].i
           f == ValidatedFields(schema)[i]
           g == FieldValue(c, inst[c], f)
           last == i = Len(ValidatedFields(schema))
           errs == inst[c].errors \o FieldErrors(f, g.val)
                   \o (IF last
                       THEN HookErrors(c, [inst[c] EXCEPT !.cache = g.cache])
                       ELSE <<>>)
       IN  /\ inst' = [inst EXCEPT ![c].cache = g.cache, ![c].errors = errs]
           /\ IF ~last
              THEN /\ loc' = [loc EXCEPT ![c].i = i + 1]
                   /\ UNCHANGED <<pc, ret>>
              ELSE IF errs # <<>>
              THEN /\ Return(c, "errors")
                   /\ Done(c)
              ELSE /\ loc' = [loc EXCEPT ![c].new = is_new(inst[c])]
                   /\ Running(c, IF is_new(inst[c]) THEN "incr" ELSE "setnx")
    /\ UNCHANGED <<now, modes, ops, store, queue, cbs, idlog, prev>>
    /\ UNCHANGED gone

\* a variant that numbers a new record by the count of the stored ones
IncrResultByCount == Cardinality({k \in HashKeys : hashes[k] # NoHash}) + 1

\* the store's INCR on the identity-counter key: the new value
IncrResult == idkey + 1

\* Model._initialize_id: self.id = str(self.db.incr(self._key['id']))
InitializeId(c) ==
    /\ pc[c] = "incr"
    /\ idkey < MaxId
    /\ idkey' = IncrResult
    /\ idlog' = Append(idlog, IncrResult)
    /\ inst' = [inst EXCEPT ![c].id = Some(Str(IncrResult))]
    /\ Running(c, "setnx")
    /\ UNCHANGED <<now, modes, ops, hashes, locks, loc, queue, cbs, prev>>
    /\ UNCHANGED gone

\* Mutex.lock: while not o.db.setnx(o.key('_lock'), self.lock_timeout)
LockSetnx(c) ==
    /\ pc[c] = "setnx"
    /\ LET k == LockKey(inst[c].id[1])
       IN  IF locks[k] = None
           THEN /\ locks' = [locks EXCEPT ![k] = Some(lock_timeout)]
                /\ loc' = [loc EXCEPT ![c].mine = lock_timeout]
                /\ Running(c, "write")
           ELSE /\ Running(c, "get")
                /\ UNCHANGED <<locks, loc>>
    /\ UNCHANGED <<now, modes, ops, idkey, hashes, inst, queue, cbs, idlog, prev>>
    /\ UNCHANGED gone

\* Mutex.lock: lock = o.db.get(o.key('_lock')) and the two tests after it
LockGet(c) ==
    /\ pc[c] = "get"
    /\ LET lock == locks[LockKey(inst[c].id[1])]
       IN  IF lock = None
           THEN Running(c, "setnx") /\ UNCHANGED loc
           ELSE IF ~lock_has_expired(lock[1])
           THEN /\ loc' = [loc EXCEPT ![c].wake = now + SleepTicks]
                /\ Running(c, "sleep")
           ELSE Running(c, "getset") /\ UNCHANGED loc
    /\ UNCHANGED <<now, modes, ops, store, inst, queue, cbs, idlog, prev>>
    /\ UNCHANGED gone

\* Mutex.lock: time.sleep(0.5); continue
LockSleep(c) ==
    /\ pc[c] = "sleep"
    /\ now >= loc[c].wake
    /\ Running(c, "setnx")
    /\ UNCHANGED <<now, modes, ops, store, inst, loc, queue, cbs, idlog, prev>>
    /\ UNCHANGED gone

\* a variant of the getset step that never takes an expired lock over
LockGetsetNever(c) ==
    /\ pc[c] = "getset"
    /\ Running(c, "setnx")
    /\ UNCHANGED <<now, modes, ops, store, inst, loc, queue, cbs, idlog, prev, gone>>

\* a variant of the getset step that takes the lock whatever value the
\* getset returned
LockGetsetBlind(c) ==
    /\ pc[c] = "getset"
    /\ locks' = [locks EXCEPT ![LockKey(inst[c].id[1])] = Some(lock_timeout)]
    /\ loc' = [loc EXCEPT ![c].mine = lock_timeout]
    /\ Running(c, "write")
    /\ UNCHANGED <<now, modes, ops, idkey, hashes, inst, queue, cbs, idlog, prev, gone>>

\* Mutex.lock: lock = o.db.getset(o.key('_lock'), self.lock_timeout) and
\* the two breaks after it
LockGetset(c) ==
    /\ pc[c] = "getset"
    /\ LET k == LockKey(inst[c].id[1])
           lock == locks[k]
       IN  /\ locks' = [locks EXCEPT ![k] = Some(lock_timeout)]
           /\ IF lock = None \/ lock_has_expired(lock[1])
              THEN /\ loc' = [loc EXCEPT ![c].mine = lock_timeout]
                   /\ Running(c, "write")
              ELSE Running(c, "setnx") /\ UNCHANGED loc
    /\ UNCHANGED <<now, modes, ops, idkey, hashes, inst, queue, cbs, idlog, prev>>
    /\ UNCHANGED gone

\* Model._write up to pipeline.execute()
WriteBuild(c) ==
    /\ pc[c] = "write"
    /\ LET d == DataForStorage(c, inst[c], loc[c].new, 1, NoHash)
       IN  /\ inst' = [inst EXCEPT ![c].cache = d.cache]
           /\ loc' = [loc EXCEPT ![c].h = d.h]
    /\ Running(c, "execute")
    /\ UNCHANGED <<now, modes, ops, store, queue, cbs, idlog, prev>>
    /\ UNCHANGED gone

\* the store's HMSET: the fields given are set, the others stay
HMSet(old, h) == [f \in AllFields |-> IF h[f] # None THEN h[f] ELSE old[f]]

\* the store's HINCRBY: a nil field counts as 0
HIncrBy(old, f, val) ==
    [old EXCEPT ![f] = Some((IF old[f] = None THEN 0 ELSE old[f][1]) + val)]

\* the pipeline of Model._write: delete(key); hmset(key, h) if h
WritePipeline(old, h) == IF h # NoHash THEN HMSet(NoHash, h) ELSE NoHash

\* Model._write: pipeline.execute()
WriteExecute(c) ==
    /\ pc[c] = "execute"
    /\ LET k == Key(inst[c].id[1])
           h == WritePipeline(hashes[k], loc[c].h)
       IN  /\ hashes' = [hashes EXCEPT ![k] = h]
           /\ gone' = gone \ {k}
           /\ prev' = [Touched(k, c) EXCEPT ![c] = AfterSave(prev[c], h, loc[c].new)]
    /\ Running(c, "unlock")
    /\ UNCHANGED <<now, modes, ops, idkey, locks, inst, loc, queue, cbs, idlog>>

\* Mutex.unlock, and save returns True
Unlock(c) ==
    /\ pc[c] = "unlock"
    /\ locks' = [locks EXCEPT ![LockKey(inst[c].id[1])] = None]
    /\ Return(c, "True")
    /\ Done(c)
    /\ UNCHANGED <<now, modes, ops, idkey, hashes, inst, queue, cbs, idlog, prev>>
    /\ UNCHANGED gone

\* ---------------------------------------------------------- Model.delete
\* pipeline.delete(self.key()); self.key() raises MissingID on a new instance
Delete(c) ==
    /\ Sync(c)
    /\ IF is_new(inst[c])
       THEN Return(c, "MissingID") /\ UNCHANGED <<hashes, prev, gone>>
       ELSE LET k == Key(inst[c].id[1])
            IN  /\ hashes' = [hashes EXCEPT ![k] = NoHash]
                /\ gone' = gone \cup {k}
                /\ prev' = [Touched(k, 0) EXCEPT ![c] = NoPrev]
                /\ Return(c, "None")
    /\ StartOp(c)
    /\ UNCHANGED <<now, modes, idkey, locks, inst, loc, queue, cbs, idlog>>

\* ------------------------------------------------ Model.incr, Model.decr
incr(c, att, val) ==
    /\ Sync(c)
    /\ IF att \notin schema.counters
       THEN Return(c, "ValueError") /\ UNCHANGED <<hashes, prev, gone>>
       ELSE IF is_new(inst[c])
       THEN Return(c, "MissingID") /\ UNCHANGED <<hashes, prev, gone>>
       ELSE LET k == Key(inst[c].id[1])
                h == HIncrBy(hashes[k], att, val)
            IN  /\ h[att][1] \in -MaxHits..MaxHits
                /\ hashes' = [hashes EXCEPT ![k] = h]
                /\ gone' = gone \ {k}
                /\ prev' = [Touched(k, 0) EXCEPT ![c] = NoPrev]
                /\ Return(c, "None")
    /\ StartOp(c)
    /\ UNCHANGED <<now, modes, idkey, locks, inst, loc, queue, cbs, idlog>>

Incr(c, att) == incr(c, att, 1)

\* Model.decr: self.incr(att, -1 * val)
Decr(c, att) == incr(c, att, -1 * 1)

\* ------------------------------------------------------ Manager.get_by_id
\* get_by_id(id) returned None
NotFound(id) == "get_by_id " \o Str(id) \o ": None"

GetById(c, id) ==
    /\ Sync(c)
    /\ IF exists(Str(id))
       THEN /\ inst' = [inst EXCEPT ![c] = [NewInst EXCEPT !.id = Some(Str(id))]]
            /\ prev' = [prev EXCEPT ![c] = NoPrev]
            /\ Return(c, "found")
       ELSE /\ Return(c, NotFound(id))
            /\ UNCHANGED <<inst, prev>>
    /\ StartOp(c)
    /\ UNCHANGED <<now, modes, store, loc, queue, cbs, idlog>>
    /\ UNCHANGED gone

\* ------------------------------------------- Model.typecast_for_read
\* A mapping d handed to typecast_for_read: the names it holds (keys), the
\* raw values of the fields in it (h) and the value at 'id'.
\* [inst, raised]: Counter.__set__ raises AttributeError, and the fields
\* before it stay set.
RECURSIVE TypecastFields(_, _, _)
TypecastFields(in, d, i) ==
    IF i > Len(Fields(schema))
    THEN [inst |-> in, raised |-> FALSE]
    ELSE LET f == Fields(schema)[i]
         IN  IF f \notin d.keys
             THEN TypecastFields(in, d, i + 1)
             ELSE IF f \in schema.counters
             THEN [inst |-> in, raised |-> TRUE]
             ELSE TypecastFields(
                      [in EXCEPT !.cache[f] =
                          Some(IF d.h[f] = None THEN None
                               ELSE Some(typecast_for_read(f, d.h[f][1])))],
                      d, i + 1)

typecast_for_read_all(in, d) ==
    LET r == TypecastFields(in, d, 1)
    IN  IF r.raised \/ "id" \notin d.keys
        THEN r
        ELSE [inst |-> [r.inst EXCEPT !.id = Some(d.id)], raised |-> FALSE]

\* the reply to HMGET key f1 f2 ..., as the mapping of the fields asked for
HMGetReply(k) ==
    [keys |-> schema.attrs, id |-> "",
     h |-> [f \in AllFields |-> IF f \in schema.attrs THEN hashes[k][f] ELSE None]]

\* any(res.values()): some value of the reply is not empty
AnyValue(d) == \E f \in d.keys \ {"id"} : d.h[f] # None

\* Model.object_dict of an instance in async mode: every attribute read
\* through its descriptor, and the id.  any(od.values()) is AnyOd.
object_dict(c, in) ==
    [id |-> in.id[1],
     h |-> [f \in AllFields |->
               IF f \in schema.attrs THEN GetAttr(c, in, f).val ELSE None]]
Truthy(f, v) == v # None /\ (f \in schema.counters => v[1] # 0)
AnyOd(od) == od.id # "" \/ \E f \in AllFields : Truthy(f, od.h[f])

\* the caller calls instance.typecast_for_read(d)
TypecastForRead(c, d) ==
    /\ pc[c] = "idle"
    /\ LET r == typecast_for_read_all(inst[c], d)
       IN  /\ inst' = [inst EXCEPT ![c] = r.inst]
           /\ Return(c, IF r.raised THEN "AttributeError" ELSE "None")
    /\ prev' = [prev EXCEPT ![c] = NoPrev]
    /\ StartOp(c)
    /\ UNCHANGED <<now, modes, store, loc, queue, cbs, idlog>>
    /\ UNCHANGED gone

\* ------------------------------------------------------ the async client
Async(c) == pc[c] = "idle" /\ connection[c] = "async" /\ Len(queue[c]) < MaxQueue
Request(cmd, id, ids, d) == [cmd |-> cmd, id |-> id, ids |-> ids, d |-> d]
Send(c, r) == queue' = [queue EXCEPT ![c] = Append(@, r)]
NoCallback == [n |-> 0, kind |-> "", objs |-> <<>>, raw |-> <<>>]
\* cbs holds what the callback got since the last call was made
Called(c) == cbs' = [cbs EXCEPT ![c] = NoCallback]
Callback(c, kind, objs, raw) ==
    cbs' = [cbs EXCEPT ![c] = [n |-> @.n + 1, kind |-> kind, objs |-> objs, raw |-> raw]]

\* a variant of save_async that takes the record's lock before it writes
SaveAsyncLocking(c) ==
    /\ Async(c)
    /\ ~is_new(inst[c])
    /\ locks' = [locks EXCEPT ![LockKey(inst[c].id[1])] = Some(lock_timeout)]
    /\ queue' = [queue EXCEPT ![c] =
           Append(@, Request("HMSET", inst[c].id[1], <<>>,
                             DataForStorage(c, inst[c], FALSE, 1, NoHash).h))]
    /\ Called(c)
    /\ Return(c, "None")
    /\ prev' = [prev EXCEPT ![c] = NoPrev]
    /\ StartOp(c)
    /\ UNCHANGED <<now, modes, idkey, hashes, inst, loc, idlog, gone>>

\* Model.save_async.  _initialize_id_async sends INCR and returns at its
\* yield; the reply can only be handled once save_async has returned to the
\* IOLoop, so self.key() still finds no _id.
SaveAsync(c) ==
    /\ Async(c)
    /\ LET v == ValidateFrom(c, inst[c], 1, <<>>)
           in1 == [inst[c] EXCEPT !.cache = v.cache, !.errors = v.errors]
           d == DataForStorage(c, in1, is_new(in1), 1, NoHash)
           in2 == [in1 EXCEPT !.cache = d.cache]
           q1 == IF is_new(in1)
                 THEN Append(queue[c], Request("INCR", "", <<>>, NoHash))
                 ELSE queue[c]
       IN  IF v.errors # <<>>
           THEN /\ inst' = [inst EXCEPT ![c] = in1]
                /\ cbs' = [cbs EXCEPT ![c] = [NoCallback EXCEPT !.n = 1, !.kind = "errors"]]
                /\ Return(c, "None")
                /\ UNCHANGED queue
           ELSE /\ inst' = [inst EXCEPT ![c] = in2]
                /\ Called(c)
                /\ IF is_new(in2)
                   THEN /\ queue' = [queue EXCEPT ![c] = q1]
                        /\ Return(c, "MissingID")
                   ELSE /\ queue' = [queue EXCEPT ![c] =
                               Append(q1, Request("HMSET", in2.id[1], <<>>, d.h))]
                        /\ Return(c, "None")
    /\ prev' = [prev EXCEPT ![c] = NoPrev]
    /\ StartOp(c)
    /\ UNCHANGED <<now, modes, store, loc, idlog>>
    /\ UNCHANGED gone

\* Manager.get_by_id_async
GetByIdAsync(c, id) ==
    /\ Async(c)
    /\ Send(c, Request("HMGET", Str(id), <<>>, NoHash))
    /\ Return(c, "None")
    /\ Called(c)
    /\ StartOp(c)
    /\ UNCHANGED <<now, modes, store, inst, loc, idlog, prev>>
    /\ UNCHANGED gone

\* Manager.get_by_ids_async
GetByIdsAsync(c, ids) ==
    /\ Async(c)
    /\ Send(c, Request("PIPE_HMGET", "", [i \in 1..Len(ids) |-> Str(ids[i])], NoHash))
    /\ Return(c, "None")
    /\ Called(c)
    /\ StartOp(c)
    /\ UNCHANGED <<now, modes, store, inst, loc, idlog, prev>>
    /\ UNCHANGED gone

\* Manager.get_sort_list_async
GetSortListAsync(c, reverse) ==
    /\ Async(c)
    /\ Send(c, Request(IF reverse THEN "ZREVRANGEBYSCORE" ELSE "ZRANGEBYSCORE",
                       "", <<>>, NoHash))
    /\ Return(c, "None")
    /\ Called(c)
    /\ StartOp(c)
    /\ UNCHANGED <<now, modes, store, inst, loc, idlog, prev>>
    /\ UNCHANGED gone

\* Manager.get_set_async
GetSetAsync(c) ==
    /\ Async(c)
    /\ Send(c, Request("SMEMBERS", "", <<>>, NoHash))
    /\ Return(c, "None")
    /\ Called(c)
    /\ StartOp(c)
    /\ UNCHANGED <<now, modes, store, inst, loc, idlog, prev>>
    /\ UNCHANGED gone

\* Manager.get_sets_async
GetSetsAsync(c, nkeys) ==
    /\ Async(c)
    /\ Send(c, Request("PIPE_SMEMBERS", "", [i \in 1..nkeys |-> "key"], NoHash))
    /\ Return(c, "None")
    /\ Called(c)
    /\ StartOp(c)
    /\ UNCHANGED <<now, modes, store, inst, loc, idlog, prev>>
    /\ UNCHANGED gone

\* ---------------------------------------------- replies on the IOLoop
Pending(c, cmds) == queue[c] # <<>> /\ queue[c][1].cmd \in cmds
Pop(c) == queue' = [queue EXCEPT ![c] = Tail(@)]

\* _initialize_id_async after its yield: self.id = str(<reply to INCR>)
IncrReply(c) ==
    /\ Pending(c, {"INCR"})
    /\ idkey < MaxId
    /\ idkey' = IncrResult
    /\ idlog' = Append(idlog, IncrResult)
    /\ inst' = [inst EXCEPT ![c].id = Some(Str(IncrResult))]
    /\ Pop(c)
    /\ UNCHANGED <<now, modes, ops, hashes, locks, pc, loc, ret, cbs, prev>>
    /\ UNCHANGED gone

\* the reply to the HMSET of save_async goes to the caller's callback; an
\* HMSET without fields is an error reply
HmsetReply(c) ==
    /\ Pending(c, {"HMSET"})
    /\ LET r == queue[c][1]
           k == Key(r.id)
       IN  IF r.d = NoHash
           THEN /\ Callback(c, "error", <<>>, <<>>)
                /\ UNCHANGED <<hashes, prev, gone>>
           ELSE /\ hashes' = [hashes EXCEPT ![k] = HMSet(@, r.d)]
                /\ gone' = gone \ {k}
                /\ prev' = Touched(k, 0)
                /\ Callback(c, "write", <<>>, <<>>)
    /\ Pop(c)
    /\ UNCHANGED <<now, modes, ops, idkey, locks, inst, pc, loc, ret, idlog>>

\* a variant of on_response without the isinstance(res, Exception) test:
\* res.values() raises on a failure
HmgetReplyUnchecked(c, ok) ==
    /\ Pending(c, {"HMGET"})
    /\ LET r == queue[c][1]
           res == HMGetReply(Key(r.id))
           obj == typecast_for_read_all([NewInst EXCEPT !.id = Some(r.id)], res)
       IN  IF ~ok
           THEN ret' = [ret EXCEPT ![c] = "AttributeError"] /\ UNCHANGED cbs
           ELSE IF ~AnyValue(res)
           THEN Callback(c, "None", <<>>, <<>>) /\ UNCHANGED ret
           ELSE IF obj.raised
           THEN ret' = [ret EXCEPT ![c] = "AttributeError"] /\ UNCHANGED cbs
           ELSE /\ Callback(c, "obj", <<object_dict(c, obj.inst)>>, <<>>)
                /\ UNCHANGED ret
    /\ Pop(c)
    /\ UNCHANGED <<now, modes, ops, store, inst, pc, loc, idlog, prev, gone>>

\* Manager.get_by_id_async.on_response
HmgetReply(c, ok) ==
    /\ Pending(c, {"HMGET"})
    /\ LET r == queue[c][1]
           res == HMGetReply(Key(r.id))
           obj == typecast_for_read_all([NewInst EXCEPT !.id = Some(r.id)], res)
       IN  IF ~ok
           THEN Callback(c, "None", <<>>, <<>>) /\ UNCHANGED ret
           ELSE IF ~AnyValue(res)
           THEN Callback(c, "None", <<>>, <<>>) /\ UNCHANGED ret
           ELSE IF obj.raised
           THEN ret' = [ret EXCEPT ![c] = "AttributeError"] /\ UNCHANGED cbs
           ELSE /\ Callback(c, "obj", <<object_dict(c, obj.inst)>>, <<>>)
                /\ UNCHANGED ret
    /\ Pop(c)
    /\ UNCHANGED <<now, modes, ops, store, inst, pc, loc, idlog, prev>>
    /\ UNCHANGED gone

\* The element of a list reply for one command of a pipeline is the reply
\* of the store ("hash", "set"), None ("none") or an exception ("error").
\* Manager.get_by_ids_async.on_response for a list: [ods, raised].
\* typecast_for_read(None) is None, whose object_dict raises; in an
\* exception no field name and no 'id' is found, so nothing is set.
RECURSIVE CollectOds(_, _, _, _, _)
CollectOds(c, ids, elems, i, ods) ==
    IF i > Len(ids)
    THEN [ods |-> ods, raised |-> FALSE]
    ELSE LET o0 == [NewInst EXCEPT !.id = Some(ids[i])]
             o == IF elems[i] = "hash"
                  THEN typecast_for_read_all(o0, HMGetReply(Key(ids[i])))
                  ELSE [inst |-> o0, raised |-> elems[i] = "none"]
             od == object_dict(c, o.inst)
         IN  IF o.raised
             THEN [ods |-> ods, raised |-> TRUE]
             ELSE CollectOds(c, ids, elems, i + 1,
                             IF AnyOd(od) THEN Append(ods, od) ELSE ods)

\* Manager.get_by_ids_async.on_response; the reply is an Exception
\* ("fail"), a list ("ok") or something else ("other")
PipeHmgetReply(c, reply) ==
    /\ Pending(c, {"PIPE_HMGET"})
    /\ LET ids == queue[c][1].ids
           r == CollectOds(c, ids, [i \in 1..Len(ids) |-> "hash"], 1, <<>>)
       IN  IF reply # "ok"
           THEN Callback(c, "list", <<>>, <<>>) /\ UNCHANGED ret
           ELSE IF r.raised
           THEN ret' = [ret EXCEPT ![c] = "AttributeError"] /\ UNCHANGED cbs
           ELSE Callback(c, "list", r.ods, <<>>) /\ UNCHANGED ret
    /\ Pop(c)
    /\ UNCHANGED <<now, modes, ops, store, inst, pc, loc, idlog, prev>>
    /\ UNCHANGED gone

\* Manager.get_by_ids_async.on_response for a list reply in which the
\* element of some command is None or an exception
PipeHmgetPartial(c, elems) ==
    /\ Pending(c, {"PIPE_HMGET"})
    /\ Len(elems) = Len(queue[c][1].ids)
    /\ \E i \in 1..Len(elems) : elems[i] # "hash"
    /\ LET r == CollectOds(c, queue[c][1].ids, elems, 1, <<>>)
       IN  IF r.raised
           THEN ret' = [ret EXCEPT ![c] = "AttributeError"] /\ UNCHANGED cbs
           ELSE Callback(c, "list", r.ods, <<>>) /\ UNCHANGED ret
    /\ Pop(c)
    /\ UNCHANGED <<now, modes, ops, store, inst, pc, loc, idlog, prev, gone>>

\* get_sort_list_async.on_response, get_set_async.on_response
RawReply(c, ok, res) ==
    /\ Pending(c, {"ZRANGEBYSCORE", "ZREVRANGEBYSCORE", "SMEMBERS"})
    /\ IF ~ok
       THEN Callback(c, "list", <<>>, <<>>)
       ELSE Callback(c, "list", <<>>, res)
    /\ Pop(c)
    /\ UNCHANGED <<now, modes, ops, store, inst, pc, loc, ret, idlog, prev>>
    /\ UNCHANGED gone

\* get_sets_async.on_response: callback([list(r) for r in res])
PipeSmembersReply(c, ok, res) ==
    /\ Pending(c, {"PIPE_SMEMBERS"})
    /\ IF ~ok
       THEN Callback(c, "list", <<>>, <<>>)
       ELSE Callback(c, "lists", <<>>, [i \in 1..Len(queue[c][1].ids) |-> res])
    /\ Pop(c)
    /\ UNCHANGED <<now, modes, ops, store, inst, pc, loc, ret, idlog, prev>>
    /\ UNCHANGED gone

\* get_sets_async.on_response for a list reply in which the element of
\* some command is None or an exception: list(None) raises TypeError,
\* list(exception) is the list of its arguments
PipeSmembersPartial(c, elems, res) ==
    /\ Pending(c, {"PIPE_SMEMBERS"})
    /\ Len(elems) = Len(queue[c][1].ids)
    /\ \E i \in 1..Len(elems) : elems[i] # "set"
    /\ IF \E i \in 1..Len(elems) : elems[i] = "none"
       THEN ret' = [ret EXCEPT ![c] = "TypeError"] /\ UNCHANGED cbs
       ELSE /\ Callback(c, "lists", <<>>,
                        [i \in 1..Len(elems) |->
                            IF elems[i] = "set" THEN res ELSE <<"error">>])
            /\ UNCHANGED ret
    /\ Pop(c)
    /\ UNCHANGED <<now, modes, ops, store, inst, pc, loc, idlog, prev, gone>>

\* ------------------------------------------------------------------ time
Tick ==
    /\ now < MaxTime
    /\ now' = now + 1
    /\ UNCHANGED <<modes, ops, store, inst, pc, loc, ret, queue, cbs, idlog, prev>>
    /\ UNCHANGED gone

\* ------------------------------------------------------- specifications
NameInputs == {None} \cup {Some(Some(v)) : v \in TextValues}
NameValues == {None} \cup {Some(v) : v \in TextValues}

InitCommon ==
    /\ now = 0
    /\ locks = [k \in LockKeys |-> None]
    /\ inst = [c \in Clients |-> NewInst]
    /\ pc = [c \in Clients |-> "idle"]
    /\ loc = [c \in Clients |-> NoLoc]
    /\ ret = [c \in Clients |-> "none"]
    /\ queue = [c \in Clients |-> <<>>]
    /\ cbs = [c \in Clients |-> NoCallback]
    /\ ops = 0
    /\ idlog = <<>>
    /\ prev = [c \in Clients |-> NoPrev]
    /\ gone = {}

\* what the caller passes in
DictInputs ==
    {[keys |-> {"id"}, h |-> NoHash, id |-> s] : s \in IdStrs}
    \cup {[keys |-> {"name"}, h |-> [NoHash EXCEPT !["name"] = Some("a")], id |-> ""]}
    \cup {[keys |-> {"id", "name"}, h |-> [NoHash EXCEPT !["name"] = Some("a")], id |-> "1"]}
IdsInputs == {<<i>> : i \in 1..MaxId} \cup {<<i, j>> : i, j \in 1..MaxId}
RawResults == {<<>>, <<"1">>}
ElemInputs(kinds) == {<<x>> : x \in kinds} \cup {<<x, y>> : x, y \in kinds}

\* The caller's own steps and the steps of save(), delete(), incr(), decr()
\* and get_by_id() of a client on the synchronous connection
SyncNext(c) ==
    \/ \E kw \in NameInputs : NewInstance(c, kw)
    \/ \E v \in NameValues : SetName(c, v)
    \/ SaveBegin(c)
    \/ Validate(c)
    \/ InitializeId(c)
    \/ LockSetnx(c)
    \/ LockGet(c)
    \/ LockSleep(c)
    \/ LockGetset(c)
    \/ WriteBuild(c)
    \/ WriteExecute(c)
    \/ Unlock(c)
    \/ Delete(c)
    \/ \E att \in {"hits", "name"} : Incr(c, att) \/ Decr(c, att)
    \/ \E id \in 1..MaxId : GetById(c, id)

\* save_async() and its replies
SaveAsyncNext(c) ==
    \/ SaveAsync(c)
    \/ IncrReply(c)
    \/ HmsetReply(c)

\* the async manager and its replies
ManagerNext(c) ==
    \/ \E d \in DictInputs : TypecastForRead(c, d)
    \/ \E id \in 1..MaxId : GetByIdAsync(c, id)
    \/ \E ids \in IdsInputs : GetByIdsAsync(c, ids)
    \/ \E reverse \in BOOLEAN : GetSortListAsync(c, reverse)
    \/ GetSetAsync(c)
    \/ \E n \in 1..2 : GetSetsAsync(c, n)
    \/ \E ok \in BOOLEAN : HmgetReply(c, ok)
    \/ \E reply \in {"ok", "fail", "other"} : PipeHmgetReply(c, reply)
    \/ \E ok \in BOOLEAN, res \in RawResults :
           RawReply(c, ok, res) \/ PipeSmembersReply(c, ok, res)
    \/ \E elems \in ElemInputs({"hash", "none", "error"}) : PipeHmgetPartial(c, elems)
    \/ \E elems \in ElemInputs({"set", "none", "error"}), res \in RawResults :
           PipeSmembersPartial(c, elems, res)

\* Spec: the clients of one record type on an empty store; every process
\* was set up once, the last one with either connection, the others with
\* setup_connection(async=False)
Init ==
    /\ InitCommon
    /\ budget = MaxOps
    /\ crashed = FALSE
    /\ meta = NoMeta
    /\ idkey = 0
    /\ hashes = [k \in HashKeys |-> NoHash]
    /\ schema \in DeclaredTypes
    /\ \E m \in {"sync", "async"} :
           connection = [c \in Clients |-> IF c = NClients THEN m ELSE "sync"]
    /\ async_client = [c \in Clients |-> connection[c] = "async"]

Next ==
    \/ Tick
    \/ \E c \in Clients : SyncNext(c) \/ SaveAsyncNext(c)

Spec == Init /\ [][Next]_vars

\* SpecAsync: processes set up with setup_connection(async=True), on a
\* store that earlier saves, deletes and incrs have left
StoredHashes ==
    {[NoHash EXCEPT
         !.name = Some(v),
         !.updated = IF "updated" \in schema.attrs THEN Some(0) ELSE None,
         !.hits = IF "hits" \in schema.attrs THEN Some(0) ELSE None] :
        v \in TextValues}

InitAsync ==
    /\ InitCommon
    /\ budget = MaxCalls
    /\ crashed = FALSE
    /\ meta = NoMeta
    /\ schema \in DeclaredTypes
    /\ idkey \in 0..MaxId
    /\ hashes \in [HashKeys -> StoredHashes \cup {NoHash}]
    /\ \A i \in 1..MaxId : i > idkey => hashes[Key(Str(i))] = NoHash
    /\ connection = [c \in Clients |-> "async"]
    /\ async_client = [c \in Clients |-> TRUE]

\* one caller drives the IOLoop
NextAsync ==
    \E c \in {1} :
        \/ \E kw \in NameInputs : NewInstance(c, kw)
        \/ \E v \in NameValues : SetName(c, v)
        \/ SaveAsyncNext(c)
        \/ ManagerNext(c)

SpecAsync == InitAsync /\ [][NextAsync]_vars

\* ------------------------------------------ SpecLock: saves of one record
\* pipeline.execute() of Model._write raises (the store fails the call):
\* nothing is written and the with statement runs Mutex.__exit__
WriteRaises(c) ==
    /\ pc[c] = "execute"
    /\ Running(c, "exit")
    /\ UNCHANGED <<now, modes, ops, store, inst, loc, queue, cbs, idlog, prev, gone>>

\* a variant of leaving the with block on an exception that does not unlock
ExitRaisedLocked(c) ==
    /\ pc[c] = "exit"
    /\ Return(c, "raised")
    /\ Done(c)
    /\ UNCHANGED <<now, modes, ops, store, inst, queue, cbs, idlog, prev, gone>>

\* Mutex.__exit__ after an exception: unlock, and save raises it
ExitRaised(c) ==
    /\ pc[c] = "exit"
    /\ locks' = [locks EXCEPT ![LockKey(inst[c].id[1])] = None]
    /\ Return(c, "raised")
    /\ Done(c)
    /\ UNCHANGED <<now, modes, ops, idkey, hashes, inst, queue, cbs, idlog, prev, gone>>

\* time goes on past MaxTime for as long as a lease is running or a process
\* sleeps
TickLease ==
    /\ \/ now < MaxTime
       \/ \E k \in LockKeys : locks[k] # None /\ ~lock_has_expired(locks[k][1])
       \/ \E c \in Clients : pc[c] = "sleep" /\ now < loc[c].wake
    /\ now' = now + 1
    /\ UNCHANGED <<modes, ops, store, inst, pc, loc, ret, queue, cbs, idlog, prev, gone>>

\* save() of an instance that has its identity
LockedSaveNext(c) ==
    \/ SaveBegin(c)
    \/ Validate(c)
    \/ LockSetnx(c)
    \/ LockGet(c)
    \/ LockSleep(c)
    \/ LockGetset(c)
    \/ WriteBuild(c)
    \/ WriteExecute(c)
    \/ WriteRaises(c)
    \/ Unlock(c)
    \/ ExitRaised(c)

\* SpecLock: record "1" is stored and every process holds an instance of it
\* (get_by_id in sync mode; the identity and the name given in async mode).
\* The last process has either connection.  A process that took the lock at
\* time 0 may have stopped for good (crashed), its lock key is left behind.
InitLock ==
    /\ now = 0
    /\ schema = Person
    /\ \E m \in {"sync", "async"} :
           connection = [c \in Clients |-> IF c = NClients THEN m ELSE "sync"]
    /\ async_client = [c \in Clients |-> connection[c] = "async"]
    /\ budget = MaxSaves
    /\ crashed \in BOOLEAN
    /\ meta = NoMeta
    /\ idkey = 1
    /\ idlog = <<1>>
    /\ hashes \in [HashKeys -> StoredHashes \cup {NoHash}]
    /\ \A k \in HashKeys : hashes[k] # NoHash <=> k = Key("1")
    /\ locks = [k \in LockKeys |->
                   IF crashed /\ k = LockKey("1") THEN Some(LockLease) ELSE None]
    /\ inst = [c \in Clients |->
                  IF connection[c] = "async"
                  THEN [NewInst EXCEPT !.id = Some("1"),
                                       !.cache["name"] = Some(Some("a"))]
                  ELSE [NewInst EXCEPT !.id = Some("1")]]
    /\ pc = [c \in Clients |-> "idle"]
    /\ loc = [c \in Clients |-> NoLoc]
    /\ ret = [c \in Clients |-> "none"]
    /\ queue = [c \in Clients |-> <<>>]
    /\ cbs = [c \in Clients |-> NoCallback]
    /\ ops = 0
    /\ prev = [c \in Clients |-> NoPrev]
    /\ gone = {}

NextLock ==
    \/ TickLease
    \/ \E c \in Clients :
           \/ LockedSaveNext(c)
           \/ SaveAsync(c)
           \/ HmsetReply(c)

SpecLock == InitLock /\ [][NextLock]_vars

\* the processes that run keep running, and time goes on
SpecLockFair ==
    /\ SpecLock
    /\ WF_vars(TickLease)
    /\ \A c \in Clients : WF_vars(LockedSaveNext(c))

\* ---------------------------------------------------- validating a Post
\* Saves of Post instances: the last process holds an instance, new or of
\* record "1", whose fields were set to any of the values below or left
\* unset; the other processes hold the valid instance of record "1".
ValidNames == {<<>>, Some(None)} \cup {Some(Some(v)) : v \in {"a", " ", "Nemo"}}
ValidEmails == {<<>>} \cup {Some(Some(v)) : v \in {"a", " "}}
ValidOwners == {<<>>} \cup {Some(Some(v)) : v \in {"1", "a", ""}}
StoredPosts ==
    {[NoHash EXCEPT !.name = Some("a"), !.email = e, !.owner_id = Some("1")] :
        e \in {None, Some("a")}}

InitValid ==
    /\ now = 0
    /\ schema = Post
    /\ \E m \in {"sync", "async"} :
           connection = [c \in Clients |-> IF c = NClients THEN m ELSE "sync"]
    /\ async_client = [c \in Clients |-> connection[c] = "async"]
    /\ budget = MaxSaves
    /\ crashed = FALSE
    /\ meta = NoMeta
    /\ idkey = 1
    /\ idlog = <<1>>
    /\ hashes \in [HashKeys -> StoredPosts \cup {NoHash}]
    /\ \A k \in HashKeys : hashes[k] # NoHash <=> k = Key("1")
    /\ locks = [k \in LockKeys |-> None]
    /\ \E i \in {None, Some("1")}, n \in ValidNames, e \in ValidEmails,
          o \in ValidOwners :
           inst = [c \in Clients |->
                      IF c = NClients
                      THEN [NewInst EXCEPT !.id = i, !.cache["name"] = n,
                                           !.cache["email"] = e,
                                           !.cache["owner_id"] = o]
                      ELSE [NewInst EXCEPT !.id = Some("1")]]
    /\ pc = [c \in Clients |-> "idle"]
    /\ loc = [c \in Clients |-> NoLoc]
    /\ ret = [c \in Clients |-> "none"]
    /\ queue = [c \in Clients |-> <<>>]
    /\ cbs = [c \in Clients |-> NoCallback]
    /\ ops = 0
    /\ prev = [c \in Clients |-> NoPrev]
    /\ gone = {}

NextValid ==
    \/ TickLease
    \/ \E c \in Clients :
           \/ LockedSaveNext(c)
           \/ InitializeId(c)
           \/ SaveAsync(c)
           \/ IncrReply(c)
           \/ HmsetReply(c)

SpecValid == InitValid /\ [][NextValid]_vars


\* ------------------------------------------------- declaring record types
\* ModelBase.__init__ runs once for each class statement.  A type declares
\* at most one reference field here, named ref, whose target is given as a
\* class (a type declared before) or as the name of a type.
TypeNames == {"A", "B", "C"}
RelatedNames == {None, Some("owners")}
\* model_class.__name__.lower()
lower(t) == IF t = "A" THEN "a" ELSE IF t = "B" THEN "b" ELSE "c"
Declared == {meta.declared[i] : i \in 1..Len(meta.declared)}

\* setattr(klass, related_name, property(_related_objects)): the accessor
\* of that name on the type is now the one of this reference field
SetAccessor(accs, klass, model_class, related) ==
    LET n == IF related # None THEN related[1] ELSE lower(model_class) \o "_set"
    IN  {x \in accs : ~(x.on = klass /\ x.name = n)}
        \cup {[on |-> klass, name |-> n, from |-> model_class]}

\* _initialize_referenced(model_class, attribute): a target given as a
\* string is returned to be deferred, else the target gets the accessor
InitializeReferenced(m, r) ==
    IF ~r.resolved
    THEN [m EXCEPT !.deferred = Append(@, <<r.target, r.owner>>)]
    ELSE [m EXCEPT !.accessors = SetAccessor(@, r.target, r.owner, r.related)]

\* ModelBase.__init__, the loop over _deferred_refs: the entries whose
\* target is the name of the type being declared are resolved to it
RECURSIVE Replay(_, _, _)
Replay(m, name, i) ==
    IF i > Len(m.deferred)
    THEN m
    ELSE LET target == m.deferred[i][1]
             owner == m.deferred[i][2]
             r == CHOOSE x \in m.refs : x.owner = owner
         IN  IF name = target
             THEN Replay([m EXCEPT
                            !.refs = (@ \ {r}) \cup {[r EXCEPT !.resolved = TRUE]},
                            !.accessors = SetAccessor(@, name, owner, r.related)],
                         name, i + 1)
             ELSE Replay(m, name, i + 1)

\* class <name>(Model): [ref = ReferenceField(<target>, related_name=...)]
Declare(name, ref) ==
    /\ name \notin Declared
    /\ ref # None =>
           (~ref[1].named => ref[1].target \in Declared)
    /\ LET m0 == [meta EXCEPT !.declared = Append(@, name)]
           m1 == IF ref = None
                 THEN m0
                 ELSE LET r == [owner |-> name, target |-> ref[1].target,
                                named |-> ref[1].named,
                                resolved |-> ~ref[1].named,
                                related |-> ref[1].related]
                      IN  InitializeReferenced([m0 EXCEPT !.refs = @ \cup {r}], r)
       IN  meta' = Replay(m1, name, 1)
    /\ UNCHANGED <<now, schema, async_client, connection, budget, crashed, store,
                   inst, pc, loc, ret, queue, cbs, ops, idlog, prev, gone>>

RefInputs ==
    {None} \cup {Some([target |-> t, named |-> n, related |-> r]) :
                    t \in TypeNames, n \in BOOLEAN, r \in RelatedNames}

InitDecl ==
    /\ InitCommon
    /\ meta = NoMeta
    /\ schema = Person
    /\ connection = [c \in Clients |-> "sync"]
    /\ async_client = [c \in Clients |-> FALSE]
    /\ budget = 0
    /\ crashed = FALSE
    /\ idkey = 0
    /\ hashes = [k \in HashKeys |-> NoHash]

NextDecl == \E name \in TypeNames, ref \in RefInputs : Declare(name, ref)

SpecDecl == InitDecl /\ [][NextDecl]_vars


\* ------------------------------------------- declaring types with parents
\* ModelBase.__init__ for a class statement with bases: the type's
\* _attributes, _references and _counters are built from the parents' and
\* from the names the class body declares.  A class body declares each of
\* the names of DeclNames as an Attribute, a Counter or a ReferenceField,
\* or not at all.
MaxClasses == 3
DeclNames == {"x", "y"}
DeclOrder == <<"x", "y">>
AttNames == DeclNames \cup {attname(k) : k \in DeclNames}
DeclKinds == {"Attribute", "Counter", "ReferenceField"}
\* class Counter(IntegerField), class IntegerField(Attribute),
\* class ReferenceField(object)
isAttribute(d) == d \in {Some("Attribute"), Some("Counter")}
isCounter(d) == d = Some("Counter")
isReferenceField(d) == d = Some("ReferenceField")

\* attrs.update(h) at the end of _initialize_references: the class body
\* with an Attribute named <k>_id for each ReferenceField k it declares
WithAttnames(attrs) ==
    [k \in AttNames |->
        IF k \in DeclNames
        THEN attrs[k]
        ELSE IF \E r \in DeclNames : attname(r) = k /\ isReferenceField(attrs[r])
        THEN Some("Attribute")
        ELSE None]

\* _initialize_attributes: the parents' attributes in the order of the
\* bases, then the Attribute instances of the class body
RECURSIVE ParentAttributes(_, _, _)
ParentAttributes(bases, i, acc) ==
    IF i > Len(bases)
    THEN acc
    ELSE LET p == meta.classes[bases[i]]
         IN  ParentAttributes(bases, i + 1,
                 [k \in AttNames |->
                     IF p.attributes[k] # None THEN p.attributes[k] ELSE acc[k]])

initialize_attributes(bases, attrs) ==
    LET inherited == ParentAttributes(bases, 1, [k \in AttNames |-> None])
    IN  [k \in AttNames |-> IF isAttribute(attrs[k]) THEN attrs[k] ELSE inherited[k]]

\* _initialize_references: the parents' references, then the
\* ReferenceField instances of the class body
initialize_references(bases, attrs) ==
    UNION {meta.classes[bases[i]].references : i \in 1..Len(bases)}
        \cup {k \in DeclNames : isReferenceField(attrs[k])}

\* list.remove(k): without the first occurrence of k
RECURSIVE remove(_, _)
remove(l, k) ==
    IF l = <<>> THEN <<>>
    ELSE IF Head(l) = k THEN Tail(l)
    ELSE <<Head(l)>> \o remove(Tail(l), k)

InList(l, k) == \E i \in 1..Len(l) : l[i] = k

\* _initialize_counters: the parents' counters appended in the order of the
\* bases, then each Counter of the class body moved to the end.  Only a
\* name the class body declares as a Counter is looked up in the list.
RECURSIVE ParentCounters(_, _)
ParentCounters(bases, i) ==
    IF i > Len(bases)
    THEN <<>>
    ELSE meta.classes[bases[i]].counters \o ParentCounters(bases, i + 1)

RECURSIVE OwnCounters(_, _, _)
OwnCounters(attrs, i, l) ==
    IF i > Len(DeclOrder)
    THEN l
    ELSE LET k == DeclOrder[i]
         IN  IF isCounter(attrs[k])
             THEN OwnCounters(attrs, i + 1,
                      Append(IF InList(l, k) THEN remove(l, k) ELSE l, k))
             ELSE OwnCounters(attrs, i + 1, l)

initialize_counters(bases, attrs) == OwnCounters(attrs, 1, ParentCounters(bases, 1))

\* the types a type inherits from, itself included
RECURSIVE Ancestors(_)
Ancestors(i) ==
    {i} \cup UNION {Ancestors(meta.classes[i].bases[j]) :
                       j \in 1..Len(meta.classes[i].bases)}

\* the lists of bases a class statement may name: none (Model alone), one
\* declared type, or two of which the first is no ancestor of the second
\* (type.__new__ finds no method resolution order for the others)
BasesInputs ==
    LET n == Len(meta.classes)
    IN  {<<>>} \cup {<<p>> : p \in 1..n}
          \cup {b \in {<<p, q>> : p \in 1..n, q \in 1..n} : b[1] \notin Ancestors(b[2])}

AttrsInputs == [DeclNames -> {None} \cup {Some(d) : d \in DeclKinds}]

\* class <new>(<bases>): <attrs>
DeclareSubtype(bases, attrs) ==
    /\ Len(meta.classes) < MaxClasses
    /\ LET a == WithAttnames(attrs)
       IN  meta' = [meta EXCEPT !.classes = Append(@,
                       [bases |-> bases,
                        attrs |-> attrs,
                        references |-> initialize_references(bases, attrs),
                        attributes |-> initialize_attributes(bases, a),
                        counters |-> initialize_counters(bases, attrs)])]
    /\ UNCHANGED <<now, schema, async_client, connection, budget, crashed, store,
                   inst, pc, loc, ret, queue, cbs, ops, idlog, prev, gone>>

NextInherit == \E bases \in BasesInputs, attrs \in AttrsInputs : DeclareSubtype(bases, attrs)

SpecInherit == InitDecl /\ [][NextInherit]_vars


\* ------------------------------------------------ two writers of a record
\* The record Contact 1 is stored; every process has loaded it with
\* get_by_id (an instance with the identity and nothing read yet).  The
\* first process sets the name, the others set the email, and each saves.
NewValues == {Some("b")}
OwnField(c) == IF c = 1 THEN "name" ELSE "email"

InitWriters ==
    /\ now = 0
    /\ locks = [k \in LockKeys |-> None]
    /\ inst = [c \in Clients |-> [NewInst EXCEPT !.id = Some("1")]]
    /\ pc = [c \in Clients |-> "idle"]
    /\ loc = [c \in Clients |-> NoLoc]
    /\ ret = [c \in Clients |-> "none"]
    /\ queue = [c \in Clients |-> <<>>]
    /\ cbs = [c \in Clients |-> NoCallback]
    /\ ops = 0
    /\ idlog = <<1>>
    /\ prev = [c \in Clients |-> NoPrev]
    /\ gone = {}
    /\ schema = Contact
    /\ connection = [c \in Clients |-> "sync"]
    /\ async_client = [c \in Clients |-> FALSE]
    /\ budget = MaxOps
    /\ crashed = FALSE
    /\ meta = NoMeta
    /\ idkey = 1
    /\ hashes = [k \in HashKeys |->
                    IF k = Key("1")
                    THEN [NoHash EXCEPT !.name = Some("a"), !.email = Some("a")]
                    ELSE NoHash]

NextWriters ==
    \/ Tick
    \/ \E v \in NewValues : SetName(1, v)
    \/ \E c \in Clients \ {1} : \E v \in NewValues : SetEmail(c, v)
    \/ \E c \in Clients :
           \/ SaveBegin(c)
           \/ Validate(c)
           \/ LockSetnx(c)
           \/ LockGet(c)
           \/ LockSleep(c)
           \/ LockGetset(c)
           \/ WriteBuild(c)
           \/ WriteExecute(c)
           \/ Unlock(c)

SpecWriters == InitWriters /\ [][NextWriters]_vars


\* ------------------------------------- save_async of a persisted record
\* The record Contact 1 is stored with a name and an email; every process
\* is in async mode and holds an instance of it with both fields set to
\* the stored values.  The callers set fields, to None too, and save.
FieldInputs == NameValues \cup NewValues

InitResave ==
    /\ now = 0
    /\ locks = [k \in LockKeys |-> None]
    /\ inst = [c \in Clients |->
                  [NewInst EXCEPT !.id = Some("1"),
                                  !.cache["name"] = Some(Some("a")),
                                  !.cache["email"] = Some(Some("a"))]]
    /\ pc = [c \in Clients |-> "idle"]
    /\ loc = [c \in Clients |-> NoLoc]
    /\ ret = [c \in Clients |-> "none"]
    /\ queue = [c \in Clients |-> <<>>]
    /\ cbs = [c \in Clients |-> NoCallback]
    /\ ops = 0
    /\ idlog = <<1>>
    /\ prev = [c \in Clients |-> NoPrev]
    /\ gone = {}
    /\ schema = Contact
    /\ connection = [c \in Clients |-> "async"]
    /\ async_client = [c \in Clients |-> TRUE]
    /\ budget = MaxOps
    /\ crashed = FALSE
    /\ meta = NoMeta
    /\ idkey = 1
    /\ hashes = [k \in HashKeys |->
                    IF k = Key("1")
                    THEN [NoHash EXCEPT !.name = Some("a"), !.email = Some("a")]
                    ELSE NoHash]

NextResave ==
    \E c \in Clients :
        \/ \E v \in FieldInputs : SetName(c, v)
        \/ \E v \in FieldInputs : SetEmail(c, v)
        \/ SaveAsync(c)
        \/ HmsetReply(c)

SpecResave == InitResave /\ [][NextResave]_vars


\* ------------------------------------------------ the dates of an Article
\* Sequences of saves of Article records on an empty store, by the
\* instances that created them and by instances loaded with get_by_id.
InitDates ==
    /\ InitCommon
    /\ budget = MaxOps
    /\ crashed = FALSE
    /\ meta = NoMeta
    /\ schema = Article
    /\ idkey = 0
    /\ hashes = [k \in HashKeys |-> NoHash]
    /\ connection = [c \in Clients |-> "sync"]
    /\ async_client = [c \in Clients |-> FALSE]

NextDates ==
    \/ Tick
    \/ \E c \in Clients :
           \/ \E kw \in NameInputs : NewInstance(c, kw)
           \/ \E v \in NameValues : SetName(c, v)
           \/ \E id \in 1..MaxId : GetById(c, id)
           \/ SaveBegin(c)
           \/ Validate(c)
           \/ InitializeId(c)
           \/ LockSetnx(c)
           \/ LockGet(c)
           \/ LockSleep(c)
           \/ LockGetset(c)
           \/ WriteBuild(c)
           \/ WriteExecute(c)
           \/ Unlock(c)

SpecDates == InitDates /\ [][NextDates]_vars


\* --------------------------------------------- a type without requirements
\* The lifecycle of Note instances, every one of which is valid, the one
\* with no name too.
InitNotes ==
    /\ InitCommon
    /\ budget = MaxOps
    /\ crashed = FALSE
    /\ meta = NoMeta
    /\ schema = Note
    /\ idkey = 0
    /\ hashes = [k \in HashKeys |-> NoHash]
    /\ connection = [c \in Clients |-> "sync"]
    /\ async_client = [c \in Clients |-> FALSE]

NextNotes ==
    \/ Tick
    \/ \E c \in Clients : SyncNext(c)

SpecNotes == InitNotes /\ [][NextNotes]_vars


\* ------------------------------------------------------ setup_connection
\* setup_connection(host, port, db, async), called by a process between two
\* operations, always with the same host, port and db (client.update then
\* changes nothing).  With async the AsyncClient is created unless there is
\* one, and becomes the connection; without, the connection is a new
\* redis.Redis of the client, and async_client is left as it is.
SetupConnection(c, async) ==
    /\ pc[c] = "idle"
    /\ IF async
       THEN /\ async_client' = [async_client EXCEPT ![c] = TRUE]
            /\ connection' = [connection EXCEPT ![c] = "async"]
       ELSE /\ connection' = [connection EXCEPT ![c] = "sync"]
            /\ UNCHANGED async_client
    /\ StartOp(c)
    /\ UNCHANGED <<now, schema, budget, crashed, meta, store, inst, pc, loc, ret,
                   queue, cbs, idlog, prev, gone>>

\* the module as imported: client = Client(), async_client = None,
\* connection = client.redis()
InitSetup ==
    /\ InitCommon
    /\ budget = MaxOps
    /\ crashed = FALSE
    /\ meta = NoMeta
    /\ schema = Person
    /\ idkey = 0
    /\ hashes = [k \in HashKeys |-> NoHash]
    /\ connection = [c \in Clients |-> "sync"]
    /\ async_client = [c \in Clients |-> FALSE]

NextSetup ==
    \/ Tick
    \/ \E c \in Clients :
           \/ \E async \in BOOLEAN : SetupConnection(c, async)
           \/ SyncNext(c)

SpecSetup == InitSetup /\ [][NextSetup]_vars


\* ----------------------------------------------------------- properties
\* a client is inside Model._write under the Mutex
InWrite(c) == pc[c] \in {"write", "execute"}

\* C1: two saves of the same record are never both inside the locked write
\* section unless the lease of the one that entered first had expired when
\* the other one entered (loc.mine is the lease end a client wrote on
\* entering, so it entered at loc.mine - LockLease).
C1_WritesNeverInterleave ==
    \A p, q \in Clients :
        (p # q /\ InWrite(p) /\ InWrite(q) /\ inst[p].id = inst[q].id)
            => \/ loc[p].mine < loc[q].mine - LockLease
               \/ loc[q].mine < loc[p].mine - LockLease

\* C2: the values INCR returned are 1, 2, ... in the order of allocation,
\* and every save of a new instance assigns the string of the incremented
\* counter, an identity no earlier allocation returned, deletes or not.
C2_IdentitiesIncrease ==
    /\ [](\A i \in 1..Len(idlog) : idlog[i] = i)
    /\ [][\A c \in Clients :
            (pc[c] = "incr" /\ pc'[c] = "setnx")
                => /\ idkey' = idkey + 1
                   /\ idlog' = Append(idlog, idkey')
                   /\ inst'[c].id = Some(Str(idkey'))
                   /\ \A j \in 1..Len(idlog) : inst'[c].id # Some(Str(idlog[j]))
                   /\ \A d \in Clients \ {c} : inst[d].id # inst'[c].id]_vars

\* one client saved record "1", deleted it, and saved a second new instance,
\* which got "2"
C2_Witness ==
    /\ idlog = <<1, 2>>
    /\ inst[1].id = Some("2")
    /\ is_new(inst[2])
    /\ hashes[Key("1")] = NoHash
    /\ hashes[Key("2")] # NoHash

\* C3: no step changes the identity an instance has, to another identity
\* (a step that leaves the client without identity is the caller making a
\* new instance).
C3_IdentityNeverChanges ==
    [][\A c \in Clients :
         (inst[c].id # None /\ inst'[c].id # None) => inst'[c].id = inst[c].id]_vars

\* C4: no step of save() up to the verdict of is_valid changes the store or
\* the identity, and a save that fails consists of these steps only and
\* returns the errors; a save_async that hands the errors to the callback
\* changes neither the store nor the identity, sends nothing and does not
\* raise.
C4_FailedValidationWritesNothing ==
    [][\A c \in Clients :
         /\ (/\ (pc[c] = "idle" /\ pc'[c] = "valid") \/ pc[c] = "valid"
             /\ pc'[c] # pc[c] \/ loc'[c] # loc[c])
                => (UNCHANGED store /\ inst'[c].id = inst[c].id)
         /\ (pc[c] = "valid" /\ pc'[c] = "idle")
                => (ret'[c] = "errors" /\ inst'[c].errors # <<>>)
         /\ (cbs'[c] # cbs[c] /\ cbs'[c].kind = "errors")
                => /\ UNCHANGED <<store, queue>>
                   /\ inst'[c].id = inst[c].id
                   /\ inst'[c].errors # <<>>
                   /\ cbs'[c].n = 1
                   /\ ret'[c] = "None"]_vars

\* a save() returned the errors, a save_async() passed them to the callback,
\* and the store is as empty as it was
C4_Witness ==
    \E c, d \in Clients :
        /\ ret[c] = "errors" /\ inst[c].errors # <<>> /\ is_new(inst[c])
        /\ cbs[d].kind = "errors" /\ is_new(inst[d])
        /\ idkey = 0
        /\ \A k \in HashKeys : hashes[k] = NoHash
        /\ \A k \in LockKeys : locks[k] = None

\* the value a counter of the stored record has, nil counting as 0
StoredCounter(h, f) == IF h[f] = None THEN 0 ELSE h[f][1]

\* C5: a counter reads as 0 on a new instance, and the write of a save()
\* leaves the stored value of every counter of the record as it was.
C5_SaveKeepsCounter ==
    /\ [](\A c \in Clients : \A f \in schema.counters :
            is_new(inst[c]) => CounterGet(c, inst[c], f) = 0)
    /\ [][\A c \in Clients :
            (pc[c] = "execute" /\ pc'[c] = "unlock")
                => \A f \in schema.counters :
                       StoredCounter(hashes'[Key(inst[c].id[1])], f)
                           = StoredCounter(hashes[Key(inst[c].id[1])], f)]_vars

\* C6 as stated: the second of two successive saves writes the hash the
\* first one wrote, and allocates no identity.
C6_SecondSaveSameHash ==
    \A c \in Clients :
        prev[c].n = 2 => (prev[c].diff = {} /\ ~prev[c].realloc)

\* C6 amended: the second of two successive saves writes the hash the first
\* one wrote but for the auto_now fields, and allocates no identity.
C6_SecondSaveSameButAutoNow ==
    \A c \in Clients :
        prev[c].n = 2 => (prev[c].diff \subseteq schema.auto_now /\ ~prev[c].realloc)

\* a second save a second later: the auto_now field is the one that differs
C6_Witness ==
    \E c \in Clients :
        prev[c].n = 2 /\ prev[c].diff = {"updated"} /\ ret[c] = "True"

\* C7: a record deleted and not written since has no hash, and get_by_id
\* for its identity returns None and hands out no instance.
C7_DeletedIsAbsent ==
    /\ [](\A k \in gone : hashes[k] = NoHash)
    /\ [][\A c \in Clients, id \in 1..MaxId :
            (GetById(c, id) /\ Key(Str(id)) \in gone)
                => (ret'[c] = NotFound(id) /\ inst'[c] = inst[c])]_vars

\* a client saved record "1", deleted it and then looked it up
C7_Witness ==
    \E c \in Clients :
        /\ ops = 4
        /\ inst[c].id = Some("1")
        /\ Key("1") \in gone
        /\ ret[c] = NotFound(1)

\* C8: on a list reply, get_by_ids_async hands the callback one element for
\* every id whose hash exists, in the order of ids, and none for the others.
C8_OnlyExistingInOrder ==
    [][\A c \in Clients :
         PipeHmgetReply(c, "ok")
             => /\ cbs'[c].kind = "list"
                /\ cbs'[c].n = cbs[c].n + 1
                /\ [i \in 1..Len(cbs'[c].objs) |-> cbs'[c].objs[i].id]
                       = SelectSeq(queue[c][1].ids, LAMBDA s : exists(s))]_vars

\* what client c's callback holds after one more call, with None
\* ("None") or with an empty collection ("list")
CalledEmpty(c, kind) ==
    [n |-> cbs[c].n + 1, kind |-> kind, objs |-> <<>>, raw |-> <<>>]

\* C9: on a failure reply every async manager operation calls the callback
\* once, with None (get_by_id_async) or an empty collection, and nothing is
\* raised.
C9_FailureReachesCallback ==
    [][\A c \in Clients :
         /\ HmgetReply(c, FALSE)
                => (cbs'[c] = CalledEmpty(c, "None") /\ ret'[c] = ret[c])
         /\ PipeHmgetReply(c, "fail") => (cbs'[c] = CalledEmpty(c, "list") /\ ret'[c] = ret[c])
         /\ \A res \in RawResults :
                /\ RawReply(c, FALSE, res) => (cbs'[c] = CalledEmpty(c, "list") /\ ret'[c] = ret[c])
                /\ PipeSmembersReply(c, FALSE, res)
                       => (cbs'[c] = CalledEmpty(c, "list") /\ ret'[c] = ret[c])]_vars

\* the one call made was get_by_id_async for a record that is stored, and
\* the callback got None
C9_Witness ==
    /\ ops = 1
    /\ cbs[1] = [n |-> 1, kind |-> "None", objs |-> <<>>, raw |-> <<>>]
    /\ queue[1] = <<>>
    /\ \A k \in HashKeys : hashes[k] # NoHash

\* C10: save_async on a new valid instance does not raise and has sent the
\* hash write, as the last request, by the time it returns.
C10_SaveAsyncSendsWrite ==
    [][\A c \in Clients :
         (/\ SaveAsync(c)
          /\ is_new(inst[c])
          /\ ValidateFrom(c, inst[c], 1, <<>>).errors = <<>>)
             => /\ ret'[c] = "None"
                /\ queue'[c] # <<>>
                /\ queue'[c][Len(queue'[c])].cmd = "HMSET"]_vars

Absent(v) == v = None \/ v[1] \in Blank
Cached(in, f) == IF in.cache[f] = <<>> THEN None ELSE in.cache[f][1]
ExpectedErrors(in) ==
    {<<f, "required">> :
        f \in {g \in schema.required \cap schema.attrs : Absent(Cached(in, g))}}
    \cup {<<r, "required">> :
        r \in {g \in schema.required \cap schema.refs :
                  Cached(in, attname(g)) \in {None, Some("")}}}
    \cup {<<r, "bad type for reference">> :
        r \in {g \in schema.refs :
                  /\ Cached(in, attname(g)) \notin {None, Some("")}
                  /\ ~isdigit(Cached(in, attname(g))[1])}}
    \cup (IF schema.hook /\ Cached(in, "name") = Some("Nemo")
          THEN {<<"name", "cannot be Nemo">>} ELSE {})

\* C12: when is_valid has run (the last step of the validation of save, or
\* save_async), the errors of the instance are the errors of all its fields
\* and of the validate() hook together, a required field without a value is
\* among them as (field, 'required'), and the save goes on exactly if there
\* are none: otherwise save returns the errors, save_async hands them to
\* the callback, and nothing is sent.
C12_AllErrorsCollected ==
    [][\A c \in Clients :
          ((pc[c] = "valid" /\ pc'[c] # "valid") \/ SaveAsync(c)) =>
              LET e == inst'[c].errors
              IN  /\ {e[i] : i \in 1..Len(e)} = ExpectedErrors(inst'[c])
                  /\ pc[c] = "valid" =>
                         /\ e = <<>> <=> pc'[c] \in {"incr", "setnx"}
                         /\ e # <<>> <=> (pc'[c] = "idle" /\ ret'[c] = "errors")
                  /\ pc[c] # "valid" =>
                         /\ e # <<>> <=> cbs'[c].kind = "errors"
                         /\ e = <<>> <=> Len(queue'[c]) = Len(queue[c]) + 1]_vars

\* a save has returned three errors: of a blank required field, of a
\* reference that is no identity, and of the hook
C12_Witness ==
    \E c \in Clients :
        /\ pc[c] = "idle"
        /\ ret[c] = "errors"
        /\ inst[c].errors = << <<"email", "required">>,
                               <<"owner", "bad type for reference">>,
                               <<"name", "cannot be Nemo">> >>

\* C13: delete() leaves every counter of the record reading what it read
\* before (a read in sync mode returns the stored value, 0 for none), and leaves the identity counter and every lock key as they were.
C13_DeleteKeepsCounters ==
    [][\A c \in Clients :
          (Delete(c) /\ ~is_new(inst[c])) =>
              /\ \A f \in schema.counters :
                     StoredCounter(hashes'[Key(inst[c].id[1])], f)
                         = CounterGet(c, inst[c], f)
              /\ idkey' = idkey
              /\ locks' = locks]_vars

\* the value of field f the store holds for the record of an instance, as
\* a read of the field returns it
Fetched(in, f) ==
    LET raw == hashes[Key(in.id[1])][f]
    IN  IF raw = None THEN Default(f) ELSE Some(typecast_for_read(f, raw[1]))

InLockedSave(c) ==
    pc[c] \in {"setnx", "get", "sleep", "getset", "write", "execute", "unlock", "exit"}

\* C16: when no process has stopped for good, a lock key is in the store
\* only while a save() of its record in sync mode is between the call of
\* Mutex.lock() and the end of Mutex.unlock(); so with every save returned,
\* having written or raised, the key is absent.
C16_LockKeyOnlyDuringSave ==
    ~crashed =>
        \A s \in IdStrs :
            locks[LockKey(s)] # None =>
                \E c \in Clients :
                    ~is_async(c) /\ inst[c].id = Some(s) /\ InLockedSave(c)

\* _write raised in a save of record "1", every save has returned and the
\* lock key is gone
C16_Witness ==
    /\ ~crashed
    /\ \E c \in Clients : ret[c] = "raised"
    /\ \A c \in Clients : pc[c] = "idle"
    /\ ops = budget
    /\ locks[LockKey("1")] = None

\* C17: when the holder of a lock has stopped for good, a save() waiting in
\* Mutex.lock() for that lock gets on: it takes the lock once it has expired
\* and returns, provided time goes on and the waiting process keeps running.
C17_WaiterGetsPastDeadHolder ==
    \A c \in Clients :
        (crashed /\ pc[c] \in {"setnx", "get", "sleep", "getset"})
            ~> (pc[c] = "idle" /\ ret[c] \in {"True", "raised"})

\* the holder stopped for good at time 0; a save of the record has written
\* and returned, and its lock is gone
C17_Witness ==
    /\ crashed
    /\ \E c \in Clients : pc[c] = "idle" /\ ret[c] = "True"
    /\ locks[LockKey("1")] = None
    /\ hashes[Key("1")] # NoHash

\* C18 as stated: in the write section of a save(), where is_valid has read
\* every field of the instance before, no read of a field asks the store.
C18_NoReadAsksAgain ==
    \A c \in Clients :
        pc[c] = "write" =>
            \A f \in schema.attrs : ~GetAttr(c, inst[c], f).read

\* C18 amended: a field other than a counter that has been read or set
\* reads as the value the instance holds, without a question to the store
\* and whatever the store holds by now; a counter is not held by the
\* instance: on a persisted instance in sync mode every read of it asks the
\* store and returns the value stored now.
C18_CachedButCounters ==
    \A c \in Clients :
        /\ \A f \in schema.attrs \ schema.counters :
               inst[c].cache[f] # <<>> =>
                   /\ ~GetAttr(c, inst[c], f).read
                   /\ GetAttr(c, inst[c], f).val = inst[c].cache[f][1]
                   /\ GetAttr(c, inst[c], f).cache = inst[c].cache
        /\ \A f \in schema.counters :
               (~is_new(inst[c]) /\ ~is_async(c)) =>
                   /\ GetAttr(c, inst[c], f).read
                   /\ GetAttr(c, inst[c], f).val
                          = Some(StoredCounter(hashes[Key(inst[c].id[1])], f))
                   /\ GetAttr(c, inst[c], f).cache = inst[c].cache

\* an instance in sync mode of a type with a counter holds the name "a"
\* while its record has been deleted or the stored counter has been raised
C18_Witness ==
    /\ schema.counters # {}
    /\ \E c \in Clients :
           /\ ~is_async(c) /\ ~is_new(inst[c])
           /\ inst[c].cache["name"] = Some(Some("a"))
           /\ \/ hashes[Key(inst[c].id[1])] = NoHash
              \/ hashes[Key(inst[c].id[1])]["hits"] = Some(1)

\* C19: for a reference field of a declared type a whose target is given by
\* the name of type b: while b is not declared the target is not resolved
\* and b has no accessor from the field; once a and b are both declared, in
\* whichever order, the target is resolved to b and b has the accessor
\* related_name, or '<a>_set'.  A type not declared has given no accessor.
C19_ReverseAccessorOnceBothDeclared ==
    /\ \A x \in meta.accessors : x.from \in Declared /\ x.on \in Declared
    /\ \A r \in meta.refs :
           r.named =>
               LET n == IF r.related # None THEN r.related[1]
                        ELSE lower(r.owner) \o "_set"
               IN  IF r.target \in Declared
                   THEN /\ r.resolved
                        /\ \E x \in meta.accessors : x.on = r.target /\ x.name = n
                   ELSE /\ ~r.resolved
                        /\ \A x \in meta.accessors : x.from # r.owner

\* C20: when the element of some command in the list reply to the pipeline
\* of get_by_ids_async or get_sets_async is None or an exception, the
\* callback is called with an empty collection and nothing is raised.
C20_PartialFailureEmptiesBatch ==
    [][\A c \in Clients :
         /\ \A elems \in ElemInputs({"hash", "none", "error"}) :
                PipeHmgetPartial(c, elems)
                    => (cbs'[c] = CalledEmpty(c, "list") /\ ret'[c] = ret[c])
         /\ \A elems \in ElemInputs({"set", "none", "error"}) :
                \A res \in RawResults :
                    PipeSmembersPartial(c, elems, res)
                        => (cbs'[c] = CalledEmpty(c, "list") /\ ret'[c] = ret[c])]_vars

\* the second the clock shows, as a save stores it
NowSeconds == now \div TicksPerSecond

C22_OwnDeclarationsOverride ==
    \A i \in 1..Len(meta.classes) :
        LET t == meta.classes[i]
            parents == {meta.classes[t.bases[j]] : j \in 1..Len(t.bases)}
        IN  Len(t.bases) > 0 =>
                \A k \in DeclNames :
                    IF t.attrs[k] # None
                    THEN /\ t.attributes[k]
                              = (IF isAttribute(t.attrs[k]) THEN t.attrs[k] ELSE None)
                         /\ k \in t.references <=> isReferenceField(t.attrs[k])
                         /\ InList(t.counters, k) <=> isCounter(t.attrs[k])
                    ELSE /\ t.attributes[k] # None
                              <=> \E p \in parents : p.attributes[k] # None
                         /\ k \in t.references <=> \E p \in parents : k \in p.references
                         /\ InList(t.counters, k)
                              <=> \E p \in parents : InList(p.counters, k)

\* C23 as stated: no update is lost between synchronous writers of a
\* record.  What a save writes for the fields its caller did not set is
\* what the store holds while the saver has the lock, so the write leaves
\* those fields of the stored hash as they are, with the changes other
\* writers made to them.
C23_NoLostUpdate ==
    [][\A c \in Clients :
          (pc[c] = "execute" /\ pc'[c] = "unlock") =>
              \A f \in schema.attrs \ {OwnField(c)} :
                  hashes'[Key(inst[c].id[1])][f] = hashes[Key(inst[c].id[1])][f]]_vars

\* C24 as stated: the write of a save() that returns True leaves the hash
\* key of the record in the store, whatever the values of the instance, so
\* that exists(id) is true and get_by_id(id) returns an instance.
C24_SavedRecordExists ==
    [][\A c \in Clients :
          (pc[c] = "execute" /\ pc'[c] = "unlock") =>
              hashes'[Key(inst[c].id[1])] # NoHash]_vars

\* C25 as stated: when the HMSET of a save_async() of a persisted record
\* is applied, the stored hash becomes what the pipeline of the synchronous
\* save() makes of the same data: exactly the fields with a value, none
\* left over from the version stored before.
C25_AsyncWritesWhatSyncWrites ==
    [][\A c \in Clients :
          (HmsetReply(c) /\ queue[c][1].d # NoHash) =>
              hashes'[Key(queue[c][1].id)]
                  = WritePipeline(hashes[Key(queue[c][1].id)], queue[c][1].d)]_vars

\* C26 as stated: in every process the mode flag agrees with the active
\* client: is_async() is true exactly if get_client() returns the
\* asynchronous client.
C26_ModeFlagAgreesWithClient ==
    \A c \in Clients : is_async(c) <=> connection[c] = "async"

====
